---- MODULE Spec2Model ----
(***************************************************************************)
(* StockAnalysis: the browser app (src/script.js) and the daily digest     *)
(* monitor (src/monitor.js).                                               *)
(*                                                                         *)
(* JavaScript numbers are modelled as fixed-point integers: a number x is  *)
(* the integer x * FixScale, divisions truncate (floor) at that            *)
(* resolution.  NaN, +Infinity, -Infinity and null are distinguished       *)
(* values outside the range of the prices.  Times are milliseconds, dates  *)
(* are day numbers.                                                        *)
(***************************************************************************)
EXTENDS Integers, Sequences, FiniteSets, TLC

(***************************************************************************)
(* Bounds of the model.                                                    *)
(***************************************************************************)
FixScale == 1000
MaxLen == 200
MaxLevel == 2
MaxStale == 4
MaxTickers == 2
MaxLate == 1
MaxLatency == 2
MaxEvents == 4
PageLoad == 20000000

(***************************************************************************)
(* JavaScript values.                                                      *)
(***************************************************************************)
NaN == -2000000001
Null == -2000000002
PosInf == 2000000001
NegInf == -2000000003
Undefined == "undefined"
NullObj == [null |-> TRUE]

IsNum(x) == x \notin {NaN, Null, PosInf, NegInf}

\* a + b
Plus(a, b) == IF a = NaN \/ b = NaN THEN NaN ELSE a + b

\* a - b
Minus(a, b) == IF a = NaN \/ b = NaN THEN NaN ELSE a - b

\* a > b, a < b: every comparison with NaN is false
Gt(a, b) == a # NaN /\ b # NaN /\ a > b

Lt(a, b) == a # NaN /\ b # NaN /\ a < b

\* a / n for a count n > 0 (a period)
DivCount(a, n) == IF a = NaN THEN NaN ELSE a \div n

\* a / b for two numbers: x/0 is +-Infinity, 0/0 is NaN
Div(a, b) ==
    IF a = NaN \/ b = NaN THEN NaN
    ELSE IF b = 0 THEN (IF a = 0 THEN NaN ELSE IF a > 0 THEN PosInf ELSE NegInf)
    ELSE (a * FixScale) \div b

\* x * 100 for a ratio x
Times100(x) == IF x \in {NaN, PosInf, NegInf} THEN x ELSE x * 100

Abs(x) == IF x = NaN THEN NaN ELSE IF x < 0 THEN 0 - x ELSE x

Max0(x) == IF x = NaN THEN NaN ELSE IF x > 0 THEN x ELSE 0

\* Math.sqrt on a value of resolution FixScale^2: the result has resolution FixScale
RECURSIVE SqrtIn(_, _, _)
SqrtIn(v, lo, hi) ==
    IF lo >= hi THEN lo
    ELSE LET mid == (lo + hi + 1) \div 2
         IN  IF mid * mid <= v THEN SqrtIn(v, mid, hi) ELSE SqrtIn(v, lo, mid - 1)

Sqrt(v) == IF v = NaN THEN NaN ELSE SqrtIn(v, 0, MaxLevel * FixScale + FixScale)

\* Loops over an array are evaluated by halving the index range; the accumulator
\* is evaluated before each half is entered (acc = acc).

\* s.slice(lo - 1, hi).reduce((acc, p) => acc + p, 0)
RECURSIVE SumRange(_, _, _)
SumRange(s, lo, hi) ==
    IF lo > hi THEN 0
    ELSE IF lo = hi THEN Plus(0, s[lo])
    ELSE LET mid == (lo + hi) \div 2
         IN  Plus(SumRange(s, lo, mid), SumRange(s, mid + 1, hi))

SumFirst(s, k) == SumRange(s, 1, k)

\* [...prices].reverse()
Reverse(s) == [i \in 1..Len(s) |-> s[Len(s) + 1 - i]]

(***************************************************************************)
(* Technical indicators (src/monitor.js).  Price arrays are newest-first.  *)
(***************************************************************************)
calculateSMAOffByOne(prices, period) ==
    IF Len(prices) <= period THEN Null
    ELSE DivCount(SumFirst(prices, period), period)

calculateSMA(prices, period) ==
    IF Len(prices) < period THEN Null
    ELSE DivCount(SumFirst(prices, period), period)

\* result[i] = oldestFirst[i] * k + result[i - 1] * (1 - k), k = 2 / (period + 1)
EmaStep(x, prev, period) ==
    IF x = NaN \/ prev = NaN THEN NaN
    ELSE (2 * x + (period - 1) * prev) \div (period + 1)

RECURSIVE EmaFill(_, _, _, _, _)
EmaFill(xs, period, lo, hi, acc) ==
    IF acc = acc /\ lo > hi THEN acc
    ELSE IF lo = hi THEN Append(acc, EmaStep(xs[lo], acc[lo - 1], period))
    ELSE LET mid == (lo + hi) \div 2
         IN  EmaFill(xs, period, mid + 1, hi, EmaFill(xs, period, lo, mid, acc))

\* _emaArray: null before the seed at index period (1-based), the recurrence after
emaArray(oldestFirst, period) ==
    IF Len(oldestFirst) < period THEN <<>>
    ELSE EmaFill(oldestFirst, period, period + 1, Len(oldestFirst),
                 [i \in 1..period |->
                     IF i < period THEN Null
                     ELSE DivCount(SumFirst(oldestFirst, period), period)])

\* for (i = 0; i < period; i++): the gains and the losses of the first changes
RECURSIVE SeedSums(_, _, _, _)
SeedSums(changes, lo, hi, acc) ==
    IF acc = acc /\ lo > hi THEN acc
    ELSE IF lo = hi
         THEN IF Gt(changes[lo], 0)
              THEN <<Plus(acc[1], changes[lo]), acc[2]>>
              ELSE <<acc[1], Plus(acc[2], Abs(changes[lo]))>>
    ELSE LET mid == (lo + hi) \div 2
         IN  SeedSums(changes, mid + 1, hi, SeedSums(changes, lo, mid, acc))

\* for (i = period; i < changes.length; i++): Wilder smoothing
WilderStep(avg, change, period) ==
    DivCount(Plus(IF avg = NaN THEN NaN ELSE avg * (period - 1), change), period)

RECURSIVE Wilder(_, _, _, _, _)
Wilder(changes, period, lo, hi, acc) ==
    IF acc = acc /\ lo > hi THEN acc
    ELSE IF lo = hi
         THEN <<WilderStep(acc[1], Max0(changes[lo]), period),
                WilderStep(acc[2], Max0(Minus(0, changes[lo])), period)>>
    ELSE LET mid == (lo + hi) \div 2
         IN  Wilder(changes, period, mid + 1, hi, Wilder(changes, period, lo, mid, acc))

\* calculateRSI without the test of avgLoss against 0
calculateRSINoGuard(prices, period) ==
    IF Len(prices) < period + 1 THEN Null
    ELSE LET oldest  == Reverse(prices)
             changes == [i \in 1..(Len(prices) - 1) |-> Minus(oldest[i + 1], oldest[i])]
             seed    == SeedSums(changes, 1, period, <<0, 0>>)
             avg     == Wilder(changes, period, period + 1, Len(changes),
                               <<DivCount(seed[1], period), DivCount(seed[2], period)>>)
             avgGain == avg[1]
             avgLoss == avg[2]
         IN  Minus(100 * FixScale,
                   Div(100 * FixScale, Plus(FixScale, Div(avgGain, avgLoss))))

calculateRSI(prices, period) ==
    IF Len(prices) < period + 1 THEN Null
    ELSE LET oldest  == Reverse(prices)
             changes == [i \in 1..(Len(prices) - 1) |-> Minus(oldest[i + 1], oldest[i])]
             seed    == SeedSums(changes, 1, period, <<0, 0>>)
             avg     == Wilder(changes, period, period + 1, Len(changes),
                               <<DivCount(seed[1], period), DivCount(seed[2], period)>>)
             avgGain == avg[1]
             avgLoss == avg[2]
         IN  IF avgLoss = 0 THEN 100 * FixScale
             ELSE Minus(100 * FixScale,
                        Div(100 * FixScale, Plus(FixScale, Div(avgGain, avgLoss))))

calculateMACD(prices) ==
    IF Len(prices) < 35 THEN NullObj
    ELSE LET oldest     == Reverse(prices)
             ema12arr   == emaArray(oldest, 12)
             ema26arr   == emaArray(oldest, 26)
             valid      == {i \in 1..Len(oldest) : ema12arr[i] # Null /\ ema26arr[i] # Null}
             first      == Len(oldest) + 1 - Cardinality(valid)
             macdValues == [j \in 1..Cardinality(valid) |->
                               Minus(ema12arr[first + j - 1], ema26arr[first + j - 1])]
         IN  IF Len(macdValues) < 9 THEN NullObj
             ELSE LET signalArr  == emaArray(macdValues, 9)
                      signalLine == signalArr[Len(signalArr)]
                      macdLine   == macdValues[Len(macdValues)]
                  IN  [macd |-> macdLine, signal |-> signalLine,
                       histogram |-> Minus(macdLine, signalLine)]

\* recent.reduce((sum, p) => sum + Math.pow(p - sma, 2), 0)
RECURSIVE SumSq(_, _, _, _)
SumSq(s, lo, hi, sma) ==
    IF lo > hi THEN 0
    ELSE IF lo = hi
         THEN LET d == Minus(s[lo], sma) IN Plus(0, IF d = NaN THEN NaN ELSE d * d)
    ELSE LET mid == (lo + hi) \div 2
         IN  Plus(SumSq(s, lo, mid, sma), SumSq(s, mid + 1, hi, sma))

calculateBollingerBands(prices, period) ==
    IF Len(prices) < period THEN NullObj
    ELSE LET sma    == DivCount(SumFirst(prices, period), period)
             stdDev == Sqrt(DivCount(SumSq(prices, 1, period, sma), period))
             twoSd  == IF stdDev = NaN THEN NaN ELSE 2 * stdDev
         IN  [upper |-> Plus(sma, twoSd), middle |-> sma, lower |-> Minus(sma, twoSd),
              bandwidth |-> Times100(Div(IF stdDev = NaN THEN NaN ELSE 4 * stdDev, sma))]

calculateMomentum(prices) ==
    [week  |-> IF Len(prices) >= 6
               THEN Times100(Div(Minus(prices[1], prices[6]), prices[6])) ELSE Null,
     month |-> IF Len(prices) >= 22
               THEN Times100(Div(Minus(prices[1], prices[22]), prices[22])) ELSE Null]

(***************************************************************************)
(* The provider's payload.  A JSON body is a record of the three marker    *)
(* fields (Undefined when absent) and the 'Time Series (Daily)' section:   *)
(* defined or not, and its dated records, a function from dates (day       *)
(* numbers) to records.  A dated record is null or holds the raw text of   *)
(* its '4. close' field.                                                   *)
(***************************************************************************)
\* a marker field's values: absent, an empty string, a message
MarkerValues == {Undefined, "", "message"}

\* if (data['Error Message']) ...: undefined and '' are falsy
Truthy(v) == v \notin {Undefined, ""}

\* raw '4. close' texts: a decimal number, a number followed by other characters,
\* text that starts with no number, and a record without the field
RawNum(v) == [kind |-> "num", v |-> v]
RawNumJunk(v) == [kind |-> "numjunk", v |-> v]
RawJunk == [kind |-> "junk", v |-> 0]
RawMissing == [kind |-> "missing", v |-> 0]

\* parseFloat: the longest numeric prefix, NaN when there is none
parseFloat(raw) == IF raw.kind \in {"num", "numjunk"} THEN raw.v ELSE NaN

Rec(raw) == [isNull |-> FALSE, close |-> raw]
NullRec == [isNull |-> TRUE, close |-> RawMissing]

\* the dated records of newest-first raw closes: day n is the newest
DatedRecs(closes) == [d \in 1..Len(closes) |-> Rec(closes[Len(closes) + 1 - d])]

NoSeries == [defined |-> FALSE, recs |-> <<>>]
Series(recs) == [defined |-> TRUE, recs |-> recs]

Body(err, note, info, ts) ==
    [ErrorMessage |-> err, Note |-> note, Information |-> info, TimeSeries |-> ts]

MaxDay == MaxLen + MaxStale + 1

\* Object.keys(timeSeries).sort((a, b) => new Date(b) - new Date(a)): the dates,
\* newest first
RECURSIVE SelectDesc(_, _, _)
SelectDesc(S, lo, hi) ==
    IF lo > hi THEN <<>>
    ELSE IF lo = hi THEN (IF lo \in S THEN <<lo>> ELSE <<>>)
    ELSE IF ~\E d \in S : lo <= d /\ d <= hi THEN <<>>
    ELSE LET mid == (lo + hi) \div 2
         IN  SelectDesc(S, mid + 1, hi) \o SelectDesc(S, lo, mid)

SortedDates(timeSeries) == SelectDesc(DOMAIN timeSeries.recs, 0, MaxDay)

\* dates.map(date => parseFloat(timeSeries[date]['4. close']))
ClosingPrices(timeSeries) ==
    LET dates == SortedDates(timeSeries)
    IN  [i \in 1..Len(dates) |-> parseFloat(timeSeries.recs[dates[i]].close)]

\* processStockData throws a TypeError: Object.keys(undefined), the read of
\* timeSeries[undefined]['4. close'] when there is no date, or of a field of a
\* null record
ProcessThrows(data) ==
    \/ ~data.TimeSeries.defined
    \/ DOMAIN data.TimeSeries.recs = {}
    \/ \E d \in DOMAIN data.TimeSeries.recs : data.TimeSeries.recs[d].isNull

\* Math.floor((Date.now() - new Date(latestDate)) / (1000 * 60 * 60 * 24)), in days
DaysDiff(today, latestDate) == today - latestDate

\* an Error's message: a kind prefix and, after ': ', a detail ('' when none); a
\* TypeError or SyntaxError of the runtime has no kind prefix
Message(prefix, detail) == [prefix |-> prefix, detail |-> detail]
NoError == [prefix |-> "null", detail |-> ""]

Signal(kind, text, type, value) ==
    [kind |-> kind, text |-> text, type |-> type, value |-> value]

\* ((latestPrice - sma) / sma * 100), before toFixed(2) and Math.abs
DiffPercent(latestPrice, sma) == Times100(Div(Minus(latestPrice, sma), sma))

StaleSignals(daysDiff) ==
    IF daysDiff > 3 THEN <<Signal("stale", "days old", "warning", daysDiff)>> ELSE <<>>

\* monitor.js: no signal for an SMA that is null
PriceVsSMA(kind, latestPrice, sma) ==
    IF sma # Null
    THEN IF Gt(latestPrice, sma)
         THEN <<Signal(kind, "above", "bullish", DiffPercent(latestPrice, sma))>>
         ELSE <<Signal(kind, "below", "bearish", DiffPercent(latestPrice, sma))>>
    ELSE <<>>

CrossSignalsSwapped(short, long) ==
    IF short # Null \/ long # Null
    THEN IF Gt(short, long)
         THEN <<Signal("cross", "Golden Cross", "bullish", 0)>>
         ELSE <<Signal("cross", "Death Cross", "bearish", 0)>>
    ELSE <<>>

CrossSignals(short, long) ==
    IF short # Null /\ long # Null
    THEN IF Gt(short, long)
         THEN <<Signal("cross", "Golden Cross", "bullish", 0)>>
         ELSE <<Signal("cross", "Death Cross", "bearish", 0)>>
    ELSE <<>>

RSISignals(rsi) ==
    IF rsi # Null
    THEN IF Gt(rsi, 70 * FixScale) THEN <<Signal("rsi", "Overbought", "bearish", rsi)>>
         ELSE IF Lt(rsi, 30 * FixScale) THEN <<Signal("rsi", "Oversold", "bullish", rsi)>>
         ELSE <<Signal("rsi", "Neutral", "warning", rsi)>>
    ELSE <<>>

MACDSignalsStrictBearish(macd) ==
    IF macd # NullObj
    THEN IF Gt(macd.histogram, 0)
         THEN <<Signal("macd", "above signal", "bullish", macd.macd)>>
         ELSE IF Lt(macd.histogram, 0)
         THEN <<Signal("macd", "below signal", "bearish", macd.macd)>>
         ELSE <<>>
    ELSE <<>>

MACDSignals(macd) ==
    IF macd # NullObj
    THEN IF Gt(macd.histogram, 0)
         THEN <<Signal("macd", "above signal", "bullish", macd.macd)>>
         ELSE <<Signal("macd", "below signal", "bearish", macd.macd)>>
    ELSE <<>>

BollingerSignals(latestPrice, bb) ==
    IF bb # NullObj
    THEN IF Gt(latestPrice, bb.upper)
         THEN <<Signal("bb", "above upper", "bearish", bb.upper)>>
         ELSE IF Lt(latestPrice, bb.lower)
         THEN <<Signal("bb", "below lower", "bullish", bb.lower)>>
         ELSE <<Signal("bb", "within", "warning",
                       Times100(Div(Minus(latestPrice, bb.lower),
                                    Minus(bb.upper, bb.lower))))>>
    ELSE <<>>

(***************************************************************************)
(* monitor.js processStockData, for a payload it does not throw on.        *)
(***************************************************************************)
\* processStockData with the RSI block placed before the cross block
processStockDataRSIBeforeCross(data, ticker, today) ==
    LET timeSeries    == data.TimeSeries
        dates         == SortedDates(timeSeries)
        latestDate    == dates[1]
        latestPrice   == parseFloat(timeSeries.recs[latestDate].close)
        closingPrices == ClosingPrices(timeSeries)
        sma50         == calculateSMA(closingPrices, 50)
        sma100        == calculateSMA(closingPrices, 100)
        rsi           == calculateRSI(closingPrices, 14)
        macd          == calculateMACD(closingPrices)
        bb            == calculateBollingerBands(closingPrices, 20)
        mom           == calculateMomentum(closingPrices)
    IN  [ticker      |-> ticker,
         latestDate  |-> latestDate,
         latestPrice |-> latestPrice,
         sma50       |-> sma50,
         sma100      |-> sma100,
         rsi         |-> rsi,
         macd        |-> macd,
         bb          |-> bb,
         mom         |-> mom,
         signals     |-> StaleSignals(DaysDiff(today, latestDate))
                         \o PriceVsSMA("sma50", latestPrice, sma50)
                         \o PriceVsSMA("sma100", latestPrice, sma100)
                         \o RSISignals(rsi)
                         \o CrossSignals(sma50, sma100)
                         \o MACDSignals(macd)
                         \o BollingerSignals(latestPrice, bb),
         dataPoints  |-> Len(closingPrices),
         error       |-> NoError]

processStockData(data, ticker, today) ==
    LET timeSeries    == data.TimeSeries
        dates         == SortedDates(timeSeries)
        latestDate    == dates[1]
        latestPrice   == parseFloat(timeSeries.recs[latestDate].close)
        closingPrices == ClosingPrices(timeSeries)
        sma50         == calculateSMA(closingPrices, 50)
        sma100        == calculateSMA(closingPrices, 100)
        rsi           == calculateRSI(closingPrices, 14)
        macd          == calculateMACD(closingPrices)
        bb            == calculateBollingerBands(closingPrices, 20)
        mom           == calculateMomentum(closingPrices)
    IN  [ticker      |-> ticker,
         latestDate  |-> latestDate,
         latestPrice |-> latestPrice,
         sma50       |-> sma50,
         sma100      |-> sma100,
         rsi         |-> rsi,
         macd        |-> macd,
         bb          |-> bb,
         mom         |-> mom,
         signals     |-> StaleSignals(DaysDiff(today, latestDate))
                         \o PriceVsSMA("sma50", latestPrice, sma50)
                         \o PriceVsSMA("sma100", latestPrice, sma100)
                         \o CrossSignals(sma50, sma100)
                         \o RSISignals(rsi)
                         \o MACDSignals(macd)
                         \o BollingerSignals(latestPrice, bb),
         dataPoints  |-> Len(closingPrices),
         error       |-> NoError]

(***************************************************************************)
(* script.js processStockData: the 50-day and the 200-day SMA, and a       *)
(* warning for an SMA that is null.                                        *)
(***************************************************************************)
BrowserPriceVsSMA(kind, need, latestPrice, sma, have) ==
    IF sma # Null
    THEN PriceVsSMA(kind, latestPrice, sma)
    ELSE <<[kind |-> kind, text |-> "Insufficient data", type |-> "warning",
            value |-> 0, need |-> need, have |-> have]>>

browserProcessStockData(data, ticker, today) ==
    LET timeSeries    == data.TimeSeries
        dates         == SortedDates(timeSeries)
        latestDate    == dates[1]
        latestPrice   == parseFloat(timeSeries.recs[latestDate].close)
        closingPrices == ClosingPrices(timeSeries)
        sma50         == calculateSMA(closingPrices, 50)
        sma200        == calculateSMA(closingPrices, 200)
    IN  [ticker      |-> ticker,
         latestDate  |-> latestDate,
         latestPrice |-> latestPrice,
         sma50       |-> sma50,
         sma200      |-> sma200,
         signals     |-> StaleSignals(DaysDiff(today, latestDate))
                         \o BrowserPriceVsSMA("sma50", 50, latestPrice, sma50,
                                              Len(closingPrices))
                         \o BrowserPriceVsSMA("sma200", 200, latestPrice, sma200,
                                              Len(closingPrices))
                         \o CrossSignals(sma50, sma200),
         dataPoints  |-> Len(closingPrices)]

(***************************************************************************)
(* Provider responses.  The transport rejects (no connection), or an HTTP  *)
(* response arrives: ok or not, its body unparsable or a JSON object.     *)
(***************************************************************************)
Response(transport, ok, json, body) ==
    [transport |-> transport, ok |-> ok, json |-> json, body |-> body]

NoBody == Body(Undefined, Undefined, Undefined, NoSeries)

\* a two-day series of plain closes, a one-day series whose close is no number,
\* and a series with a null record
GoodSeries == Series(DatedRecs(<<RawNum(2 * FixScale), RawNum(FixScale)>>))
JunkSeries == Series(DatedRecs(<<RawJunk>>))
NullRecSeries == Series(<<NullRec>>)

Responses ==
    {Response("reject", FALSE, "none", NoBody),
     Response("http", FALSE, "object", Body("message", Undefined, Undefined, NoSeries)),
     Response("http", TRUE, "unparsable", NoBody),
     Response("http", TRUE, "object", Body("message", "message", "message", GoodSeries)),
     Response("http", TRUE, "object", Body(Undefined, "message", "message", NoSeries)),
     Response("http", TRUE, "object", Body(Undefined, Undefined, "message", GoodSeries)),
     Response("http", TRUE, "object", NoBody),
     Response("http", TRUE, "object", Body(Undefined, Undefined, Undefined, Series(<<>>))),
     Response("http", TRUE, "object", Body(Undefined, Undefined, Undefined, GoodSeries)),
     Response("http", TRUE, "object", Body("", Undefined, Undefined, GoodSeries)),
     Response("http", TRUE, "object", Body(Undefined, Undefined, Undefined, JunkSeries)),
     Response("http", TRUE, "object", Body(Undefined, Undefined, Undefined, NullRecSeries))}

NoResponse == Response("none", FALSE, "none", NoBody)

Thrown(message) == [threw |-> TRUE, message |-> message]
Returned(d) == [threw |-> FALSE, data |-> d]
Raised(fetched) == IF fetched.threw THEN fetched.message ELSE NoError

(***************************************************************************)
(* monitor.js fetchStockData: what the call yields for a response.         *)
(***************************************************************************)
monitorFetchStockData(resp, ticker) ==
    IF resp.transport = "reject" THEN Thrown(Message("", "fetch failed"))
    ELSE IF ~resp.ok THEN Thrown(Message("NETWORK_ERROR", "HTTP status"))
    ELSE IF resp.json = "unparsable" THEN Thrown(Message("", "Unexpected token"))
    ELSE LET d == resp.body
         IN  IF Truthy(d.ErrorMessage) THEN Thrown(Message("INVALID_TICKER", ticker))
             ELSE IF Truthy(d.Note) THEN Thrown(Message("RATE_LIMIT", d.Note))
             ELSE IF Truthy(d.Information) THEN Thrown(Message("API_KEY_ERROR", d.Information))
             ELSE IF ~d.TimeSeries.defined \/ DOMAIN d.TimeSeries.recs = {}
             THEN Thrown(Message("NO_DATA", ticker))
             ELSE Returned(d)

\* what a call of processStockData yields: the analysis, or the TypeError thrown
Processed(d, ticker, today) ==
    IF ProcessThrows(d) THEN [threw |-> TRUE, today |-> today, message |-> "TypeError"]
    ELSE [threw |-> FALSE, today |-> today,
          analysis |-> processStockData(d, ticker, today)]

BrowserProcessed(d, ticker, today) ==
    IF ProcessThrows(d) THEN [threw |-> TRUE, today |-> today, message |-> "TypeError"]
    ELSE [threw |-> FALSE, today |-> today,
          analysis |-> browserProcessStockData(d, ticker, today)]

\* the newest date of a payload processStockData does not throw on
LatestDate(d) == SortedDates(d.TimeSeries)[1]

API_RATE_LIMIT_DELAY == 12000
CACHE_DURATION_MS == 4 * 60 * 60 * 1000

(***************************************************************************)
(* script.js: the cache in localStorage.  The item of a ticker is absent,  *)
(* the empty text, text that JSON.parse rejects, an entry { timestamp,     *)
(* data }, or an entry whose data is absent or null.                       *)
(***************************************************************************)
NoItem == [kind |-> "none", timestamp |-> 0, data |-> NoBody]
EmptyItem == [kind |-> "empty", timestamp |-> 0, data |-> NoBody]
CorruptItem == [kind |-> "corrupt", timestamp |-> 0, data |-> NoBody]
Entry(timestamp, d) == [kind |-> "entry", timestamp |-> timestamp, data |-> d]
NoDataEntry(timestamp) == [kind |-> "nodata", timestamp |-> timestamp, data |-> NoBody]

Miss(store) == [hit |-> FALSE, data |-> NoBody, store |-> store]
Hit(d, store) == [hit |-> TRUE, data |-> d, store |-> store]

\* getCachedData that removes the entry it returns
getCachedDataConsuming(store, ticker, time) ==
    LET cached == store[ticker]
    IN  IF cached.kind \in {"none", "empty"} THEN Miss(store)
        ELSE IF cached.kind = "corrupt" THEN Miss([store EXCEPT ![ticker] = NoItem])
        ELSE IF time - cached.timestamp < CACHE_DURATION_MS
        THEN (IF cached.kind = "nodata" THEN Miss(store)
              ELSE Hit(cached.data, [store EXCEPT ![ticker] = NoItem]))
        ELSE Miss([store EXCEPT ![ticker] = NoItem])

\* getCachedData that takes an entry aged exactly the lifetime as valid
getCachedDataInclusive(store, ticker, time) ==
    LET cached == store[ticker]
    IN  IF cached.kind \in {"none", "empty"} THEN Miss(store)
        ELSE IF cached.kind = "corrupt" THEN Miss([store EXCEPT ![ticker] = NoItem])
        ELSE IF time - cached.timestamp <= CACHE_DURATION_MS
        THEN (IF cached.kind = "nodata" THEN Miss(store) ELSE Hit(cached.data, store))
        ELSE Miss([store EXCEPT ![ticker] = NoItem])

\* getCachedData, as fetchStockData uses it: the payload read (hit: it is truthy)
\* and the store after the read.  `if (!cached)` returns before any removal for an
\* absent item and for the empty text; the data of an entry is returned unchecked
getCachedData(store, ticker, time) ==
    LET cached == store[ticker]
    IN  IF cached.kind \in {"none", "empty"} THEN Miss(store)
        ELSE IF cached.kind = "corrupt" THEN Miss([store EXCEPT ![ticker] = NoItem])
        ELSE IF time - cached.timestamp < CACHE_DURATION_MS
        THEN (IF cached.kind = "nodata" THEN Miss(store) ELSE Hit(cached.data, store))
        ELSE Miss([store EXCEPT ![ticker] = NoItem])

\* setCachedData that stores the payload without the time of the write
setCachedDataNoTimestamp(store, ticker, d, time, accepted) ==
    IF accepted THEN [store EXCEPT ![ticker] = Entry(0, d)] ELSE store

\* setCachedData: localStorage.setItem throws when the quota is exceeded; the
\* error is logged and the store stays as it was
setCachedData(store, ticker, d, time, accepted) ==
    IF accepted THEN [store EXCEPT ![ticker] = Entry(time, d)] ELSE store

\* the wait before a network call: API_RATE_LIMIT_DELAY - timeSinceLastCall, 0 when
\* the delay has passed
waitTimeNone(time, last) == 0

waitTime(time, last) ==
    IF time - last < API_RATE_LIMIT_DELAY THEN API_RATE_LIMIT_DELAY - (time - last) ELSE 0

(***************************************************************************)
(* script.js fetchStockData, from the network call on: the try block and   *)
(* its catch.                                                              *)
(***************************************************************************)
browserTry(resp) ==
    IF resp.transport = "reject" THEN Thrown(Message("", "Failed to fetch"))
    ELSE IF ~resp.ok THEN Thrown(Message("NETWORK_ERROR", ""))
    ELSE IF resp.json = "unparsable" THEN Thrown(Message("", "Unexpected token"))
    ELSE LET d == resp.body
         IN  IF Truthy(d.ErrorMessage) THEN Thrown(Message("INVALID_TICKER", ""))
             ELSE IF Truthy(d.Note) THEN Thrown(Message("RATE_LIMIT", ""))
             ELSE IF Truthy(d.Information) THEN Thrown(Message("API_KEY_ERROR", ""))
             ELSE IF ~d.TimeSeries.defined \/ DOMAIN d.TimeSeries.recs = {}
             THEN Thrown(Message("NO_DATA", ""))
             ELSE Returned(d)

\* error.message.startsWith(kind)
StartsWith(message, kind) == message.prefix = kind

browserFetchOutcome(resp) ==
    LET tried == browserTry(resp)
    IN  IF ~tried.threw THEN tried
        ELSE IF \/ StartsWith(tried.message, "INVALID_TICKER")
                \/ StartsWith(tried.message, "RATE_LIMIT")
                \/ StartsWith(tried.message, "API_KEY_ERROR")
                \/ StartsWith(tried.message, "NO_DATA")
        THEN tried
        ELSE Thrown(Message("NETWORK_ERROR", ""))

(***************************************************************************)
(* script.js: the page.                                                    *)
(***************************************************************************)
\* this.value.toUpperCase() on what the user types
ToUpperCase(text) ==
    CASE text = ""    -> ""
      [] text = "aaa" -> "AAA"
      [] text = "BBB" -> "BBB"
      [] text = "a1"  -> "A1"

TypedTexts == {"", "aaa", "BBB", "a1"}
Symbols == {"AAA", "BBB"}

\* validateTicker(ticker).valid: non-empty and letters only
validateTicker(ticker) == ticker \in Symbols

\* showLoading that disables the input only
showLoadingButtonEnabled(u) ==
    [u EXCEPT !.loadingHidden = FALSE, !.resultsHidden = TRUE, !.inputDisabled = TRUE]

showLoading(u) ==
    [u EXCEPT !.loadingHidden = FALSE, !.resultsHidden = TRUE,
              !.inputDisabled = TRUE, !.buttonDisabled = TRUE]

hideLoading(u) ==
    [u EXCEPT !.loadingHidden = TRUE, !.inputDisabled = FALSE, !.buttonDisabled = FALSE]

\* displayValidation(result)
displayValidation(u, valid) ==
    IF valid THEN [u EXCEPT !.validation = "success", !.buttonDisabled = FALSE]
    ELSE [u EXCEPT !.validation = "error", !.buttonDisabled = TRUE]

\* the elements displayResults writes to are children of resultsContainer, which
\* displayError empties (resultsContainer.innerHTML = '')
ResultElementsPresent(u) == u.resultsHTML = "template"

displayResults(u) == [u EXCEPT !.resultsHidden = FALSE]

displayError(u) == [u EXCEPT !.resultsHTML = "error", !.resultsHidden = FALSE]

resetForm(u) == [u EXCEPT !.resultsHidden = TRUE, !.inputValue = "", !.validation = "empty"]

\* the switch of displayError: the title shown for an error type
ErrorTitle(errorType) ==
    IF errorType.detail # "" THEN "Error"
    ELSE CASE errorType.prefix = "INVALID_TICKER" -> "Ticker Not Found"
           [] errorType.prefix = "RATE_LIMIT"     -> "Rate Limit Exceeded"
           [] errorType.prefix = "API_KEY_ERROR"  -> "API Key Error"
           [] errorType.prefix = "NO_DATA"        -> "No Data Available"
           [] errorType.prefix = "NETWORK_ERROR"  -> "Connection Error"
           [] OTHER                               -> "Error"

NoDisplay == [view |-> "none"]

\* the .catch handler: hideLoading(); displayError(error.message || 'NETWORK_ERROR')
CatchHandler(u, message) ==
    [ui      |-> displayError(hideLoading(u)),
     display |-> [view |-> "error", errorType |-> message, title |-> ErrorTitle(message)],
     save    |-> "none"]

\* the .then handler: processStockData, hideLoading, displayResults, saveToFile;
\* what any of them throws reaches the .catch handler
ThenHandler(u, d, ticker, today, save) ==
    LET processed == BrowserProcessed(d, ticker, today)
    IN  IF processed.threw THEN CatchHandler(u, Message("", processed.message))
        ELSE IF ~ResultElementsPresent(u)
        THEN CatchHandler(hideLoading(u), Message("", "Cannot set properties of null"))
        ELSE [ui      |-> displayResults(hideLoading(u)),
              display |-> [view |-> "results", analysis |-> processed.analysis],
              save    |-> save]


(***************************************************************************)
(* State.                                                                  *)
(***************************************************************************)
VARIABLES
    data,       \* the payload handed to the analysis functions
    op,         \* the analysis function applied to it, "none" before
    out,        \* what that function returned
    now,        \* the clock, in ms
    pc,         \* where the run (monitor) or the page (browser) is
    netCalls,   \* the network calls issued so far: start time and ticker
    response,   \* the response of the last network call that settled
    raised,     \* what fetchStockData threw for it, NoError when it returned
    env,        \* monitor: which of the required environment variables are set
    TICKERS,    \* monitor: the watchlist
    tickerIndex, \* monitor: the loop index i (1-based)
    results,    \* monitor: the results pushed so far
    timer,      \* the time the pending setTimeout is due
    emails,     \* monitor: the digests handed to the mail transport
    exitCode,   \* monitor: the exit code, -1 while running
    lastAPICallTime, \* browser: the time of the last network call
    localStorage,    \* browser: the cache item of each ticker
    ui,         \* browser: the input, the button and the containers
    display,    \* browser: what the results container shows
    lastSave,   \* browser: whether the last analysis was saved to the history
    inv,        \* browser: the fetch invocation in progress or last completed
    events,     \* browser: the events of the user so far
    pending     \* browser: the fetches waiting for the rate limit or the network

calcVars == <<data, op, out>>
runVars == <<env, TICKERS, tickerIndex, results, emails, exitCode>>
sharedVars == <<now, pc, netCalls, timer, response, raised>>
pageVars == <<lastAPICallTime, localStorage, ui, display, lastSave, inv, events, pending>>
vars == <<data, op, out, now, pc, netCalls, response, raised, timer, env, TICKERS,
          tickerIndex, results, emails, exitCode, lastAPICallTime, localStorage, ui,
          display, lastSave, inv, events, pending>>

NoInvocation == [ticker |-> "", valid |-> FALSE, afterSuccess |-> FALSE,
                 afterStored |-> FALSE, calls |-> 0, state |-> "none", stored |-> FALSE,
                 settledAt |-> 0]

InitialUI == [inputValue |-> "", validation |-> "empty", inputDisabled |-> FALSE,
              buttonDisabled |-> FALSE, loadingHidden |-> TRUE, resultsHidden |-> TRUE,
              resultsHTML |-> "template"]

\* the page state of a run that has no page
NoPage ==
    /\ lastAPICallTime = 0 /\ localStorage = [t \in Symbols |-> NoItem]
    /\ ui = InitialUI /\ display = NoDisplay /\ lastSave = "none"
    /\ inv = NoInvocation /\ events = 0 /\ pending = 0


(***************************************************************************)
(* The analysis functions on their own: a payload is drawn, one function   *)
(* is applied to it.                                                       *)
(***************************************************************************)
\* lengths around the data-sufficiency thresholds of the indicators
Lens ==
    {n \in 1..MaxLen : \E t \in {6, 15, 20, 22, 35, 50, 100, 200} : n \in (t - 1)..(t + 1)}
        \cup {1, MaxLen}

\* closes of n days, newest first: `split` days at level a after days at level b
StepCloses(n, split, a, b) ==
    [i \in 1..n |-> RawNum((IF i <= split THEN a ELSE b) * FixScale)]

\* closes of n days, newest first, that change every day: by one up or one down,
\* or by three one way and one back in turn
TrendCloses(n, shape) ==
    [i \in 1..n |->
        LET j == n + 1 - i
        IN  RawNum(FixScale * CASE shape = "up"    -> j
                                [] shape = "down"  -> i
                                [] shape = "rally" -> j + 2 * (j % 2)
                                [] shape = "slide" -> i + 2 * (i % 2))]

Shapes == {"up", "down", "rally", "slide"}

\* one close of the series replaced by a text that is no plain number
Damaged(closes, how) ==
    CASE how = "none"      -> DatedRecs(closes)
      [] how = "junkNew"   -> DatedRecs([closes EXCEPT ![1] = RawJunk])
      [] how = "junkOld"   -> DatedRecs([closes EXCEPT ![Len(closes)] = RawJunk])
      [] how = "missing"   -> DatedRecs([closes EXCEPT ![Len(closes)] = RawMissing])
      [] how = "numjunk"   -> DatedRecs([closes EXCEPT ![1] = RawNumJunk(closes[1].v)])
      [] how = "nullRec"   -> [DatedRecs(closes) EXCEPT ![1] = NullRec]

Damages == {"none", "junkNew", "junkOld", "missing", "numjunk", "nullRec"}

CalcInputs ==
    {Body(Undefined, Undefined, Undefined, NoSeries),
     Body(Undefined, Undefined, Undefined, Series(<<>>))}
    \cup
    {Body(Undefined, Undefined, Undefined, Series(Damaged(StepCloses(n, split, a, b), how))) :
        n \in Lens, split \in {0, 3, 30}, a \in 0..MaxLevel, b \in 0..MaxLevel,
        how \in Damages}
    \cup
    {Body(Undefined, Undefined, Undefined, Series(DatedRecs(TrendCloses(n, shape)))) :
        n \in Lens, shape \in Shapes}

CalcInit ==
    /\ data \in CalcInputs
    /\ op = "none"
    /\ out = 0
    /\ now = 0 /\ pc = "calc" /\ netCalls = <<>> /\ timer = 0
    /\ response = NoResponse /\ raised = NoError
    /\ env = {} /\ TICKERS = <<>> /\ tickerIndex = 1 /\ results = <<>> /\ emails = 0
    /\ exitCode = -1
    /\ NoPage

Parsable(d) == ~ProcessThrows(d)

ApplySMA ==
    /\ op = "none" /\ Parsable(data)
    /\ \E period \in {50, 100, 200} :
          /\ op' = "sma"
          /\ out' = [period |-> period,
                     value |-> calculateSMA(ClosingPrices(data.TimeSeries), period)]
    /\ UNCHANGED <<data, sharedVars, runVars, pageVars>>

ApplyRSI ==
    /\ op = "none" /\ Parsable(data)
    /\ op' = "rsi"
    /\ out' = [period |-> 14, value |-> calculateRSI(ClosingPrices(data.TimeSeries), 14)]
    /\ UNCHANGED <<data, sharedVars, runVars, pageVars>>

ApplyMACD ==
    /\ op = "none" /\ Parsable(data)
    /\ op' = "macd"
    /\ out' = [value |-> calculateMACD(ClosingPrices(data.TimeSeries))]
    /\ UNCHANGED <<data, sharedVars, runVars, pageVars>>

ApplyBollinger ==
    /\ op = "none" /\ Parsable(data)
    /\ op' = "bb"
    /\ out' = [period |-> 20,
               value |-> calculateBollingerBands(ClosingPrices(data.TimeSeries), 20)]
    /\ UNCHANGED <<data, sharedVars, runVars, pageVars>>

ApplyMomentum ==
    /\ op = "none" /\ Parsable(data)
    /\ op' = "mom"
    /\ out' = [value |-> calculateMomentum(ClosingPrices(data.TimeSeries))]
    /\ UNCHANGED <<data, sharedVars, runVars, pageVars>>

\* Date.now() is read during the call: the newest record is 0..MaxStale days old
Todays(d) == IF ProcessThrows(d) THEN {0} ELSE {LatestDate(d) + k : k \in {0, 3, MaxStale}}

MonitorProcess ==
    /\ op = "none"
    /\ \E today \in Todays(data) :
          /\ op' = "monitor"
          /\ out' = Processed(data, "AAA", today)
    /\ UNCHANGED <<data, sharedVars, runVars, pageVars>>

BrowserProcess ==
    /\ op = "none"
    /\ \E today \in Todays(data) :
          /\ op' = "browser"
          /\ out' = BrowserProcessed(data, "AAA", today)
    /\ UNCHANGED <<data, sharedVars, runVars, pageVars>>

CalcNext ==
    \/ ApplySMA
    \/ ApplyRSI
    \/ ApplyMACD
    \/ ApplyBollinger
    \/ ApplyMomentum
    \/ MonitorProcess
    \/ BrowserProcess

SpecCalc == CalcInit /\ [][CalcNext]_vars

(***************************************************************************)
(* The monitor run (src/monitor.js main).                                  *)
(***************************************************************************)
Required == {"ALPHA_VANTAGE_API_KEY", "EMAIL_USER", "EMAIL_PASS", "EMAIL_TO"}

\* t.trim().toUpperCase() on the entries of the TICKERS variable
TrimUpper(t) ==
    CASE t = " aaa" -> "AAA"
      [] t = "BBB"  -> "BBB"
      [] t = " "    -> ""

\* .filter(Boolean): the empty entries are dropped
RECURSIVE FilterNonEmpty(_)
FilterNonEmpty(seq) ==
    IF seq = <<>> THEN <<>>
    ELSE IF Head(seq) = "" THEN FilterNonEmpty(Tail(seq))
    ELSE <<Head(seq)>> \o FilterNonEmpty(Tail(seq))

\* process.env.TICKERS.split(',').map(t => t.trim().toUpperCase()).filter(Boolean)
Watchlist(raw) == FilterNonEmpty([k \in 1..Len(raw) |-> TrimUpper(raw[k])])

\* the variable's entries: a blank entry, then the two symbols in turn
RawEntry(k) == IF k = 1 THEN " " ELSE IF k % 2 = 0 THEN " aaa" ELSE "BBB"

RawLists == {[k \in 1..n |-> RawEntry(k)] : n \in 1..(MaxTickers + 1)}

\* the timer of setTimeout fires when due or up to MaxLate ms later; a network
\* call takes up to MaxLatency ms
Lates == {0, MaxLate}
Latencies == {1, MaxLatency}

\* Date.now() at the analysis: the newest record is of today or MaxStale days old
RunTodays(d) == IF ProcessThrows(d) THEN {0} ELSE {LatestDate(d), LatestDate(d) + MaxStale}

NetCall(t, ticker) == [t |-> t, ticker |-> ticker]

\* results.push({ ticker: ticker.toUpperCase(), error: err.message, signals: [] })
ErrorResult(ticker, message) == [ticker |-> ticker, error |-> message, signals |-> <<>>]

\* the body of the try block and its catch: the result pushed for a response
TickerResultDropsError(resp, ticker, today) ==
    LET fetched == monitorFetchStockData(resp, ticker)
    IN  IF fetched.threw THEN ErrorResult(ticker, NoError)
        ELSE LET processed == Processed(fetched.data, ticker, today)
             IN  IF processed.threw THEN ErrorResult(ticker, processed.message)
                 ELSE processed.analysis

TickerResult(resp, ticker, today) ==
    LET fetched == monitorFetchStockData(resp, ticker)
    IN  IF fetched.threw THEN ErrorResult(ticker, fetched.message)
        ELSE LET processed == Processed(fetched.data, ticker, today)
             IN  IF processed.threw
                 THEN ErrorResult(ticker, Message("", processed.message))
                 ELSE processed.analysis

\* the iteration of the loop for one ticker, on the results array
PushResultSkipsFailure(rs, resp, ticker, today) ==
    IF monitorFetchStockData(resp, ticker).threw THEN rs
    ELSE Append(rs, TickerResult(resp, ticker, today))

PushResult(rs, resp, ticker, today) == Append(rs, TickerResult(resp, ticker, today))

\* `if (r.error)` of buildEmailBody: the error of the result is a non-empty text
HasError(r) == r.error # NoError /\ <<r.error.prefix, r.error.detail>> # <<"", "">>

\* buildEmailBody without the `if (r.error)` tests: every result is formatted
buildEmailBodyFormatsAll(rs) ==
    [threw |-> \E k \in 1..Len(rs) : "latestPrice" \notin DOMAIN rs[k]]

\* buildEmailBody: whether it throws.  A result without an error is formatted:
\* r.latestPrice.toFixed throws a TypeError when the result has no latestPrice;
\* the other fields are read through fmt, fmtPct, `?.` or a test against null
buildEmailBody(rs) ==
    [threw |-> \E k \in 1..Len(rs) : ~HasError(rs[k]) /\ "latestPrice" \notin DOMAIN rs[k]]

MonitorInit ==
    /\ pc = "start"
    /\ now = 0 /\ timer = 0 /\ netCalls = <<>>
    /\ response = NoResponse /\ raised = NoError
    /\ env \in {Required} \cup {Required \ {v} : v \in Required}
    /\ TICKERS \in {Watchlist(raw) : raw \in RawLists}
    /\ tickerIndex = 1 /\ results = <<>> /\ emails = 0 /\ exitCode = -1
    /\ data = NoBody /\ op = "none" /\ out = 0
    /\ NoPage

\* main up to its first await: the check of the environment, then the first fetch,
\* or the digest of an empty watchlist
Main ==
    /\ pc = "start"
    /\ IF env # Required
       THEN /\ pc' = "exited" /\ exitCode' = 1
            /\ UNCHANGED <<netCalls, emails>>
       ELSE IF TICKERS = <<>>
       THEN /\ IF buildEmailBody(results).threw
               THEN pc' = "exited" /\ exitCode' = 1 /\ UNCHANGED emails
               ELSE pc' = "sending" /\ emails' = emails + 1 /\ UNCHANGED exitCode
            /\ UNCHANGED netCalls
       ELSE /\ pc' = "fetching"
            /\ netCalls' = Append(netCalls, NetCall(now, TICKERS[1]))
            /\ UNCHANGED <<emails, exitCode>>
    /\ UNCHANGED <<calcVars, pageVars, now, timer, response, raised, env, TICKERS,
                   tickerIndex, results>>

\* FetchSettles of a loop that tries a ticker again when its fetch failed
FetchSettlesRetrying ==
    /\ pc = "fetching"
    /\ \E resp \in Responses, latency \in Latencies :
          /\ now' = now + latency
          /\ response' = resp
          /\ raised' = Raised(monitorFetchStockData(resp, TICKERS[tickerIndex]))
          /\ \E today \in RunTodays(resp.body) :
                results' = PushResult(results, resp, TICKERS[tickerIndex], today)
          /\ tickerIndex' = IF raised' # NoError THEN tickerIndex ELSE tickerIndex + 1
          /\ IF tickerIndex' <= Len(TICKERS)
             THEN /\ pc' = "waiting" /\ timer' = now' + API_RATE_LIMIT_DELAY
                  /\ UNCHANGED <<emails, exitCode>>
             ELSE /\ IF buildEmailBody(results').threw
                     THEN pc' = "exited" /\ exitCode' = 1 /\ UNCHANGED emails
                     ELSE pc' = "sending" /\ emails' = emails + 1 /\ UNCHANGED exitCode
                  /\ UNCHANGED timer
    /\ UNCHANGED <<calcVars, pageVars, netCalls, env, TICKERS>>

\* the fetch of ticker i settles: its result is pushed; then the wait before the
\* next ticker starts, or the digest is built and handed to the mail transport;
\* what buildEmailBody throws rejects main and reaches main().catch
FetchSettles ==
    /\ pc = "fetching"
    /\ \E resp \in Responses, latency \in Latencies :
          /\ now' = now + latency
          /\ response' = resp
          /\ raised' = Raised(monitorFetchStockData(resp, TICKERS[tickerIndex]))
          /\ \E today \in RunTodays(resp.body) :
                results' = PushResult(results, resp, TICKERS[tickerIndex], today)
          /\ tickerIndex' = tickerIndex + 1
          /\ IF tickerIndex < Len(TICKERS)
             THEN /\ pc' = "waiting" /\ timer' = now' + API_RATE_LIMIT_DELAY
                  /\ UNCHANGED <<emails, exitCode>>
             ELSE /\ IF buildEmailBody(results').threw
                     THEN pc' = "exited" /\ exitCode' = 1 /\ UNCHANGED emails
                     ELSE pc' = "sending" /\ emails' = emails + 1 /\ UNCHANGED exitCode
                  /\ UNCHANGED timer
    /\ UNCHANGED <<calcVars, pageVars, netCalls, env, TICKERS>>

\* the rate-limit timer fires: the fetch of ticker i is issued
TimerFires ==
    /\ pc = "waiting"
    /\ \E late \in Lates :
          /\ now' = timer + late
          /\ netCalls' = Append(netCalls, NetCall(now', TICKERS[tickerIndex]))
    /\ pc' = "fetching"
    /\ UNCHANGED <<calcVars, pageVars, runVars, timer, response, raised>>

\* sendMail settles: main returns, or its rejection reaches main().catch
MailSettles ==
    /\ pc = "sending"
    /\ \E delivered \in BOOLEAN :
          IF delivered THEN pc' = "done" /\ exitCode' = 0
          ELSE pc' = "exited" /\ exitCode' = 1
    /\ UNCHANGED <<calcVars, pageVars, now, timer, netCalls, response, raised, env,
                   TICKERS, tickerIndex, results, emails>>

MonitorNext ==
    \/ Main
    \/ FetchSettles
    \/ TimerFires
    \/ MailSettles

SpecMonitor == MonitorInit /\ [][MonitorNext]_vars

\* a run whose network calls and timers return: every await of the loop resumes
SpecMonitorLive ==
    /\ MonitorInit /\ [][MonitorNext]_vars
    /\ WF_vars(Main) /\ WF_vars(FetchSettles) /\ WF_vars(TimerFires)

(***************************************************************************)
(* The page of script.js: one page load.  The items found in localStorage  *)
(* were left by earlier page loads.                                        *)
(***************************************************************************)
GoodBody == Body(Undefined, Undefined, Undefined, GoodSeries)

InitialItems ==
    {NoItem, CorruptItem,
     Entry(PageLoad - CACHE_DURATION_MS, GoodBody),
     Entry(PageLoad - CACHE_DURATION_MS + 1, GoodBody)}

\* the first symbol has been analysed before; the second has not
InitialStores ==
    {[t \in Symbols |-> IF t = "AAA" THEN item ELSE NoItem] : item \in InitialItems}

\* how long the user leaves the page idle
Idles == {API_RATE_LIMIT_DELAY - MaxLatency, CACHE_DURATION_MS}

SaveOutcomes == {"saved", "cancelled"}

\* a cache entry for the ticker exists and its age is below the lifetime
ValidEntry(store, ticker, time) ==
    /\ store[ticker].kind = "entry"
    /\ time - store[ticker].timestamp < CACHE_DURATION_MS

\* the invocation that starts now follows a successful network fetch of the same
\* ticker that settled less than the lifetime ago; afterStored: and whose payload
\* localStorage accepted
Invocation(ticker, calls, state) ==
    LET after == /\ inv.state = "fetched" /\ inv.ticker = ticker
                 /\ now - inv.settledAt < CACHE_DURATION_MS
    IN  [ticker |-> ticker, valid |-> ValidEntry(localStorage, ticker, now),
         afterSuccess |-> after, afterStored |-> after /\ inv.stored,
         calls |-> calls, state |-> state, stored |-> FALSE, settledAt |-> 0]

\* where a page is: no fetch pending, one waiting out the rate limit, one awaiting
\* the network; the listeners run in each of them
PageStates == {"idle", "rateWait", "inflight"}

BrowserInit ==
    /\ pc = "idle"
    /\ now = PageLoad /\ timer = 0 /\ netCalls = <<>>
    /\ response = NoResponse /\ raised = NoError
    /\ lastAPICallTime = 0
    /\ localStorage \in InitialStores
    /\ ui = InitialUI /\ display = NoDisplay /\ lastSave = "none"
    /\ inv = NoInvocation /\ events = 0 /\ pending = 0
    /\ env = Required /\ TICKERS = <<>>
    /\ tickerIndex = 1 /\ results = <<>> /\ emails = 0 /\ exitCode = -1
    /\ data = NoBody /\ op = "none" /\ out = 0

\* the input listener: the text is upper-cased and validated
TypeTicker ==
    /\ pc \in PageStates /\ ~ui.inputDisabled /\ events < MaxEvents
    /\ events' = events + 1
    /\ \E text \in TypedTexts :
          LET value == ToUpperCase(text)
              typed == [ui EXCEPT !.inputValue = value]
          IN  ui' = IF value = ""
                    THEN [typed EXCEPT !.validation = "empty", !.buttonDisabled = FALSE]
                    ELSE displayValidation(typed, validateTicker(value))
    /\ UNCHANGED <<calcVars, runVars, sharedVars, lastAPICallTime, localStorage, display,
                   lastSave, inv, pending>>

\* the click listener of the button, which a disabled button does not run (the
\* Enter key clicks the button): up to the first await of fetchStockData, and
\* through the .then handler on a cache hit
Click ==
    /\ pc \in PageStates /\ ~ui.buttonDisabled /\ events < MaxEvents
    /\ events' = events + 1
    /\ LET ticker == ui.inputValue
       IN  IF ~validateTicker(ticker)
           THEN /\ ui' = displayValidation(ui, FALSE)
                /\ UNCHANGED <<sharedVars, lastAPICallTime, localStorage, display,
                               lastSave, inv, pending>>
           ELSE LET read  == getCachedData(localStorage, ticker, now)
                    wait  == waitTime(now, lastAPICallTime)
                IN  /\ localStorage' = read.store
                    /\ IF read.hit
                       THEN /\ \E today \in RunTodays(read.data), save \in SaveOutcomes :
                                  LET settled == ThenHandler(showLoading(ui), read.data,
                                                             ticker, today, save)
                                  IN  /\ ui' = settled.ui
                                      /\ display' = settled.display
                                      /\ lastSave' = settled.save
                            /\ inv' = Invocation(ticker, 0, "cached")
                            /\ UNCHANGED <<sharedVars, lastAPICallTime, pending>>
                       ELSE /\ ui' = showLoading(ui)
                            /\ pending' = pending + 1
                            /\ IF wait > 0
                               THEN /\ pc' = "rateWait" /\ timer' = now + wait
                                    /\ inv' = Invocation(ticker, 0, "waiting")
                                    /\ UNCHANGED <<netCalls, lastAPICallTime>>
                               ELSE /\ pc' = "inflight"
                                    /\ lastAPICallTime' = now
                                    /\ netCalls' = Append(netCalls, NetCall(now, ticker))
                                    /\ inv' = Invocation(ticker, 1, "calling")
                                    /\ UNCHANGED timer
                            /\ UNCHANGED <<now, response, raised, display, lastSave>>
    /\ UNCHANGED <<calcVars, runVars>>

\* the rate-limit timer fires: lastAPICallTime = Date.now() and the network call
RateTimerFires ==
    /\ pc = "rateWait"
    /\ \E late \in Lates :
          /\ now' = timer + late
          /\ lastAPICallTime' = now'
          /\ netCalls' = Append(netCalls, NetCall(now', inv.ticker))
    /\ pc' = "inflight"
    /\ inv' = [inv EXCEPT !.calls = @ + 1, !.state = "calling"]
    /\ UNCHANGED <<calcVars, runVars, timer, response, raised, localStorage, ui, display,
                   lastSave, events, pending>>

\* the network call settles: the rest of fetchStockData, then the .then or the
\* .catch handler of the click listener
NetworkSettles ==
    /\ pc = "inflight"
    /\ \E resp \in Responses, latency \in Latencies, accepted \in BOOLEAN :
          LET fetched == browserFetchOutcome(resp)
          IN  /\ now' = now + latency
              /\ response' = resp
              /\ raised' = Raised(fetched)
              /\ IF fetched.threw
                 THEN LET settled == CatchHandler(ui, fetched.message)
                      IN  /\ ui' = settled.ui
                          /\ display' = settled.display
                          /\ lastSave' = settled.save
                          /\ inv' = [inv EXCEPT !.state = "failed", !.settledAt = now']
                          /\ UNCHANGED localStorage
                 ELSE /\ localStorage' = setCachedData(localStorage, inv.ticker,
                                                       fetched.data, now', accepted)
                      /\ inv' = [inv EXCEPT !.state = "fetched", !.stored = accepted,
                                            !.settledAt = now']
                      /\ \E today \in RunTodays(fetched.data), save \in SaveOutcomes :
                            LET settled == ThenHandler(ui, fetched.data, inv.ticker,
                                                       today, save)
                            IN  /\ ui' = settled.ui
                                /\ display' = settled.display
                                /\ lastSave' = settled.save
    /\ pc' = "idle"
    /\ pending' = pending - 1
    /\ UNCHANGED <<calcVars, runVars, timer, netCalls, lastAPICallTime, events>>

\* a click on the New Analysis button of the results container
NewAnalysis ==
    /\ pc \in PageStates /\ ~ui.resultsHidden /\ events < MaxEvents
    /\ events' = events + 1
    /\ ui' = resetForm(ui)
    /\ UNCHANGED <<calcVars, runVars, sharedVars, lastAPICallTime, localStorage, display,
                   lastSave, inv, pending>>

\* time passes while nothing is pending
Idle ==
    /\ pc = "idle" /\ events < MaxEvents
    /\ \E d \in Idles : now' = now + d
    /\ events' = events + 1
    /\ UNCHANGED <<calcVars, runVars, pc, netCalls, timer, response, raised,
                   lastAPICallTime, localStorage, ui, display, lastSave, inv, pending>>

BrowserNext ==
    \/ TypeTicker
    \/ Click
    \/ RateTimerFires
    \/ NetworkSettles
    \/ NewAnalysis
    \/ Idle

SpecBrowser == BrowserInit /\ [][BrowserNext]_vars

(***************************************************************************)
(* getCachedData applied to the items localStorage can hold for a ticker.  *)
(***************************************************************************)
\* the ages of the entries found, around the lifetime of an entry
Ages == {0, CACHE_DURATION_MS - 1, CACHE_DURATION_MS, CACHE_DURATION_MS + 1}

CacheItems ==
    {NoItem, EmptyItem, CorruptItem}
        \cup {Entry(PageLoad - age, GoodBody) : age \in Ages}
        \cup {NoDataEntry(PageLoad - age) : age \in Ages}

CacheInit ==
    /\ pc = "cache"
    /\ now = PageLoad /\ timer = 0 /\ netCalls = <<>>
    /\ response = NoResponse /\ raised = NoError
    /\ lastAPICallTime = 0
    /\ localStorage \in [Symbols -> CacheItems]
    /\ ui = InitialUI /\ display = NoDisplay /\ lastSave = "none"
    /\ inv = NoInvocation /\ events = 0 /\ pending = 0
    /\ env = Required /\ TICKERS = <<>>
    /\ tickerIndex = 1 /\ results = <<>> /\ emails = 0 /\ exitCode = -1
    /\ data = NoBody /\ op = "none" /\ out = 0

\* one read of the cache: the item found, what the read returned
ReadCache ==
    /\ pc = "cache" /\ op = "none"
    /\ \E ticker \in Symbols :
          LET read == getCachedData(localStorage, ticker, now)
          IN  /\ op' = "read"
              /\ out' = [ticker |-> ticker, found |-> localStorage[ticker],
                         hit |-> read.hit, data |-> read.data]
              /\ localStorage' = read.store
    /\ UNCHANGED <<data, sharedVars, runVars, lastAPICallTime, ui, display, lastSave,
                   inv, events, pending>>

SpecCache == CacheInit /\ [][ReadCache]_vars

(***************************************************************************)
(* Both programs: a run of the monitor or a page load of the browser.      *)
(***************************************************************************)
Init == MonitorInit \/ BrowserInit

Next ==
    \/ Main
    \/ FetchSettles
    \/ TimerFires
    \/ MailSettles
    \/ TypeTicker
    \/ Click
    \/ RateTimerFires
    \/ NetworkSettles
    \/ NewAnalysis
    \/ Idle

Spec == Init /\ [][Next]_vars

(***************************************************************************)
(* Properties of the indicator functions and of processStockData, checked  *)
(* under SpecCalc.                                                         *)
(***************************************************************************)
Prices == ClosingPrices(data.TimeSeries)

\* an analysis was produced by processStockData of monitor.js, or of either file
MonitorAnalysed == op = "monitor" /\ ~out.threw
Analysed == op \in {"monitor", "browser"} /\ ~out.threw

\* the long SMA of the analysis: 100 days in monitor.js, 200 days in script.js
LongSMA == IF op = "monitor" THEN out.analysis.sma100 ELSE out.analysis.sma200

IsCross(s) == s.kind = "cross"
IsMACD(s) == s.kind = "macd"

\* a dated record whose close is no plain number: null, absent, or text
NonNumeric(rec) == rec.isNull \/ rec.close.kind # "num"

\* C7: processing a payload whose time series is absent, empty or holds a
\* non-numeric close in any dated record fails; it returns no analysis
C7_MalformedFails ==
    (/\ op \in {"monitor", "browser"}
     /\ \/ ~data.TimeSeries.defined
        \/ DOMAIN data.TimeSeries.recs = {}
        \/ \E d \in DOMAIN data.TimeSeries.recs : NonNumeric(data.TimeSeries.recs[d]))
    => out.threw

\* C8: each indicator function returns null exactly when the series is shorter
\* than its threshold (SMA: period, RSI: period + 1, MACD: 35, Bollinger: period),
\* and a value at or above the threshold
C8_NullBelowThreshold ==
    /\ op = "sma"  => (out.value = Null <=> Len(Prices) < out.period)
    /\ op = "rsi"  => (out.value = Null <=> Len(Prices) < out.period + 1)
    /\ op = "macd" => (out.value = NullObj <=> Len(Prices) < 35)
    /\ op = "bb"   => (out.value = NullObj <=> Len(Prices) < out.period)

\* a 50-day SMA of 50 closes is a value, of 49 closes it is null
C8_Witness ==
    /\ op = "sma" /\ out.period = 50
    /\ \/ Len(Prices) = 49 /\ out.value = Null
       \/ Len(Prices) = 50 /\ out.value # Null

\* C9: the signals of an analysis hold exactly one cross signal when both SMAs are
\* non-null (Golden Cross, bullish, when short > long; Death Cross, bearish,
\* otherwise) and none when either is null
C9_CrossIffBothSMAs ==
    Analysed =>
        LET short   == out.analysis.sma50
            crosses == SelectSeq(out.analysis.signals, IsCross)
        IN  IF short # Null /\ LongSMA # Null
            THEN /\ Len(crosses) = 1
                 /\ IF Gt(short, LongSMA)
                    THEN crosses[1].text = "Golden Cross" /\ crosses[1].type = "bullish"
                    ELSE crosses[1].text = "Death Cross" /\ crosses[1].type = "bearish"
            ELSE crosses = <<>>

\* the browser's analysis of 200 equal closes: equal SMAs, a Death Cross
C9_Witness ==
    /\ op = "browser" /\ ~out.threw
    /\ out.analysis.sma50 # Null /\ out.analysis.sma50 = out.analysis.sma200
    /\ Len(SelectSeq(out.analysis.signals, IsCross)) = 1
    /\ SelectSeq(out.analysis.signals, IsCross)[1].text = "Death Cross"

\* C10: the signals hold exactly one MACD signal when MACD is non-null, bullish
\* when histogram > 0 and bearish otherwise (so for histogram = 0), and none when
\* MACD is null
C10_MACDSignal ==
    MonitorAnalysed =>
        LET macd == out.analysis.macd
            sigs == SelectSeq(out.analysis.signals, IsMACD)
        IN  IF macd # NullObj
            THEN /\ Len(sigs) = 1
                 /\ sigs[1].type = IF Gt(macd.histogram, 0) THEN "bullish" ELSE "bearish"
            ELSE sigs = <<>>

\* a histogram of exactly 0 with its bearish signal
C10_Witness ==
    /\ MonitorAnalysed
    /\ out.analysis.macd # NullObj /\ out.analysis.macd.histogram = 0
    /\ Len(SelectSeq(out.analysis.signals, IsMACD)) = 1
    /\ SelectSeq(out.analysis.signals, IsMACD)[1].type = "bearish"

(***************************************************************************)
(* Properties of the fetch clients, of the run of the monitor and of the   *)
(* page, checked under Spec.                                               *)
(***************************************************************************)
\* the error kinds of the fetch client, as the code spells them
FetchKinds == {"INVALID_TICKER", "RATE_LIMIT", "API_KEY_ERROR", "NO_DATA", "NETWORK_ERROR"}

\* the kind the classification rules give a response, "null" for a success: a
\* marker field is present when the body carries it with a message
ExpectedKind(resp) ==
    IF resp.transport = "reject" \/ ~resp.ok THEN "NETWORK_ERROR"
    ELSE IF Truthy(resp.body.ErrorMessage) THEN "INVALID_TICKER"
    ELSE IF Truthy(resp.body.Note) THEN "RATE_LIMIT"
    ELSE IF Truthy(resp.body.Information) THEN "API_KEY_ERROR"
    ELSE IF ~resp.body.TimeSeries.defined \/ DOMAIN resp.body.TimeSeries.recs = {}
    THEN "NO_DATA"
    ELSE "null"

\* a network call has settled; the last work of the monitor or the page was on it
Settled == response.transport # "none"
MonitorSettled == Settled /\ results # <<>>
PageFailed == Settled /\ inv.state = "failed"
Completed == inv.state \in {"cached", "fetched", "failed"}

\* C1: any two consecutive network calls, of the page or of a run of the monitor,
\* start at least API_RATE_LIMIT_DELAY ms apart
C1_CallsSpaced ==
    \A k \in 2..Len(netCalls) : netCalls[k].t - netCalls[k - 1].t >= API_RATE_LIMIT_DELAY

\* the page's call for a second ticker, held back by the timer to exactly the delay
\* after the call for the first
C1_Witness ==
    /\ pc = "inflight" /\ Len(netCalls) = 2
    /\ netCalls[1].ticker # netCalls[2].ticker
    /\ netCalls[2].t = timer
    /\ netCalls[2].t - netCalls[1].t = API_RATE_LIMIT_DELAY

C3_OneResultPerTicker ==
    /\ Len(results) = tickerIndex - 1
    /\ pc \in {"sending", "done"} => Len(results) = Len(TICKERS)
    /\ \A k \in 1..Len(results) :
          /\ results[k].ticker = TICKERS[k]
          /\ results[k].error # NoError => results[k].signals = <<>>
    /\ MonitorSettled =>
          (results[Len(results)].error # NoError
              <=> (raised # NoError \/ ProcessThrows(response.body)))

\* the run over AAA, BBB where AAA has no data and BBB succeeds
C3_Witness ==
    /\ pc = "done" /\ TICKERS = <<"AAA", "BBB">> /\ Len(results) = 2
    /\ results[1].ticker = "AAA" /\ results[1].error = Message("NO_DATA", "AAA")
    /\ results[1].signals = <<>>
    /\ results[2].ticker = "BBB" /\ results[2].error = NoError

\* C4: the fetch client raises the kind of the first rule that matches the
\* response: transport or HTTP failure, 'Error Message', 'Note', 'Information',
\* a missing or empty time series; otherwise it returns the body
C4_ClassifiedInOrder ==
    (Settled /\ response.json # "unparsable") => raised.prefix = ExpectedKind(response)

\* C5: what the fetch client raises is of one of the five kinds, and the error of
\* the ticker's result (monitor) or the error type shown (page) is what it raised
C5_KindPreserved ==
    (Settled /\ raised # NoError) =>
        /\ raised.prefix \in FetchKinds
        /\ MonitorSettled => results[Len(results)].error = raised
        /\ PageFailed => display.view = "error" /\ display.errorType = raised

\* the fields of a successful result next to ticker, signals and error
IndicatorFields ==
    {"latestDate", "latestPrice", "sma50", "sma100", "rsi", "macd", "bb", "mom", "dataPoints"}

\* C6: every result of a run has its indicator fields and error null, or an
\* error and none of the indicator fields
C6_IndicatorsXorError ==
    \A k \in 1..Len(results) :
        \/ results[k].error = NoError /\ IndicatorFields \subseteq DOMAIN results[k]
        \/ results[k].error # NoError /\ IndicatorFields \cap DOMAIN results[k] = {}

\* a run with a result of each form
C6_Witness ==
    /\ Len(results) = 2
    /\ results[1].error = NoError /\ "sma50" \in DOMAIN results[1]
    /\ results[2].error # NoError /\ DOMAIN results[2] = {"ticker", "error", "signals"}

(***************************************************************************)
(* Properties of the signals of one analysis, checked under SpecCalc.      *)
(***************************************************************************)
\* the signals of the analysis about the price and the SMA of one period
SMASignals(kind) == SelectSeq(out.analysis.signals, LAMBDA s : s.kind = kind)

\* the one signal about a period is the warning when the SMA is null, and
\* bullish or bearish by the comparison of the price with the SMA otherwise
OnePriceVsSMA(kind, need, sma) ==
    /\ Len(SMASignals(kind)) = 1
    /\ LET s == SMASignals(kind)[1]
       IN  IF sma = Null
           THEN /\ s.type = "warning"
                /\ s.text = "Insufficient data"
                /\ s.need = need
                /\ s.have = out.analysis.dataPoints
           ELSE s.type = IF Gt(out.analysis.latestPrice, sma) THEN "bullish" ELSE "bearish"

\* C11: an analysis holds exactly one price-vs-SMA signal for each of its two
\* SMA periods: an insufficient-data warning naming the needed and the available
\* number of points when that SMA is null, bullish when the price is above the
\* SMA and bearish otherwise
C11_OneSignalPerSMA ==
    Analysed =>
        /\ OnePriceVsSMA("sma50", 50, out.analysis.sma50)
        /\ IF op = "monitor"
           THEN OnePriceVsSMA("sma100", 100, out.analysis.sma100)
           ELSE OnePriceVsSMA("sma200", 200, out.analysis.sma200)

\* the place of a signal in the order processStockData emits them in
Rank(s) ==
    CASE s.kind = "stale" -> 1
      [] s.kind = "sma50" -> 2
      [] s.kind \in {"sma100", "sma200"} -> 3
      [] s.kind = "cross" -> 4
      [] s.kind = "rsi" -> 5
      [] s.kind = "macd" -> 6
      [] s.kind = "bb" -> 7

\* the number of signals of one kind in the analysis
Count(kind) == Len(SelectSeq(out.analysis.signals, LAMBDA s : s.kind = kind))

\* the analysis holds one signal of the kind when the condition holds, else none
Emitted(kind, condition) == Count(kind) = IF condition THEN 1 ELSE 0

\* C12: the signals of an analysis are in the order staleness, price vs short
\* SMA, price vs long SMA, cross, RSI, MACD, Bollinger, no kind twice; the
\* staleness, cross, RSI, MACD and Bollinger signals are there exactly when
\* their conditions hold
C12_SignalOrder ==
    Analysed =>
        LET signals == out.analysis.signals
        IN  /\ \A i \in 1..(Len(signals) - 1) : Rank(signals[i]) < Rank(signals[i + 1])
            /\ Emitted("stale", out.today - out.analysis.latestDate > 3)
            /\ Emitted("cross", out.analysis.sma50 # Null /\ LongSMA # Null)
            /\ op = "monitor" =>
                  /\ Emitted("rsi", out.analysis.rsi # Null)
                  /\ Emitted("macd", out.analysis.macd # NullObj)
                  /\ Emitted("bb", out.analysis.bb # NullObj)

\* a stale analysis of 100 closes or more by monitor.js: all seven signals
C12_Witness ==
    /\ MonitorAnalysed
    /\ Len(out.analysis.signals) = 7
    /\ out.analysis.signals[1].kind = "stale"
    /\ out.analysis.signals[7].kind = "bb"

(***************************************************************************)
(* Properties of calculateRSI, checked under SpecCalc.                     *)
(***************************************************************************)
Positive(prices) == \A i \in 1..Len(prices) : IsNum(prices[i]) /\ prices[i] > 0

\* every day-over-day change of the newest-first prices is an increase (a decrease)
AllIncreases(prices) == \A i \in 1..(Len(prices) - 1) : prices[i] > prices[i + 1]
AllDecreases(prices) == \A i \in 1..(Len(prices) - 1) : prices[i] < prices[i + 1]

\* C13: the RSI of period + 1 or more positive prices lies in [0, 100]; it is 100
\* when every day-over-day change is an increase and 0 when every one is a decrease
C13_RSIRange ==
    (op = "rsi" /\ Len(Prices) >= out.period + 1 /\ Positive(Prices)) =>
        /\ IsNum(out.value)
        /\ 0 <= out.value /\ out.value <= 100 * FixScale
        /\ AllIncreases(Prices) => out.value = 100 * FixScale
        /\ AllDecreases(Prices) => out.value = 0

\* the RSI of prices that rise by three and fall by one in turn is strictly
\* between 50 and 100
C13_Witness ==
    /\ op = "rsi" /\ Len(Prices) >= out.period + 1 /\ Positive(Prices)
    /\ ~AllIncreases(Prices) /\ ~AllDecreases(Prices)
    /\ 50 * FixScale < out.value /\ out.value < 100 * FixScale

\* C14: an analysis by script.js holds the 50-day and the 100-day SMA, and a
\* series of 100 points or more yields one cross signal
C14_BrowserCrossAtHundred ==
    (op = "browser" /\ ~out.threw) =>
        /\ out.analysis.sma50 = calculateSMA(Prices, 50)
        /\ "sma100" \in DOMAIN out.analysis
        /\ out.analysis.dataPoints >= 100 => Count("cross") = 1

(***************************************************************************)
(* Properties of the page and of a run of the monitor, checked under Spec.  *)
(***************************************************************************)
\* C15: at most one fetch is waiting for the rate limit or the network: while one
\* is, the input and the button of the page are disabled; a run of the monitor
\* has issued one call more than it has results only while it awaits that call
C15_OneFetchAtATime ==
    /\ pending <= 1
    /\ pending = 1 <=> pc \in {"rateWait", "inflight"}
    /\ pending >= 1 => ui.inputDisabled /\ ui.buttonDisabled
    /\ pc \notin PageStates =>
          Len(netCalls) - Len(results) = IF pc = "fetching" THEN 1 ELSE 0

\* the second network call of the page is in flight, the controls are disabled
C15_Witness ==
    /\ pc = "inflight" /\ pending = 1 /\ Len(netCalls) = 2
    /\ ui.inputDisabled /\ ui.buttonDisabled

(***************************************************************************)
(* Termination of the loop of main, checked under SpecMonitorLive.         *)
(***************************************************************************)
\* the loop is over: one result for each ticker of the watchlist, in its order
LoopDone ==
    /\ pc \in {"sending", "done", "exited"}
    /\ Len(results) = Len(TICKERS)
    /\ \A k \in 1..Len(results) : results[k].ticker = TICKERS[k]

\* C16: a run that has its environment, and whose network calls and timers
\* return, reaches the end of its loop with one result for each ticker, whatever
\* the outcome of each fetch
C16_RunCompletes == (pc = "start" /\ env = Required) ~> LoopDone

\* the loop is over after the fetch for the first of two tickers failed
C16_Witness ==
    /\ LoopDone /\ Len(TICKERS) = 2
    /\ results[1].error # NoError

(***************************************************************************)
(* Percentages over a zero denominator, checked under SpecCalc.            *)
(***************************************************************************)
Numeric(prices) == \A i \in 1..Len(prices) : IsNum(prices[i])

\* null (not applicable) or a finite number
NullOrFinite(x) == x = Null \/ IsNum(x)

\* C17: of numeric closes, no percentage is NaN or infinite: the momentum of one
\* week and of one month, the Bollinger bandwidth, and the percentage carried by
\* the price-vs-SMA and the Bollinger signals of an analysis are null or finite
C17_PercentagesFinite ==
    Numeric(Prices) =>
        /\ op = "mom" => NullOrFinite(out.value.week) /\ NullOrFinite(out.value.month)
        /\ (op = "bb" /\ out.value # NullObj) => NullOrFinite(out.value.bandwidth)
        /\ MonitorAnalysed =>
              \A i \in 1..Len(out.analysis.signals) :
                  out.analysis.signals[i].kind \in {"sma50", "sma100", "bb"}
                      => NullOrFinite(out.analysis.signals[i].value)

(***************************************************************************)
(* Properties of the cache of the page, checked under Spec.                *)
(***************************************************************************)
\* a payload that carries no error marker and has a time series with records
Clean(d) ==
    /\ ~Truthy(d.ErrorMessage) /\ ~Truthy(d.Note) /\ ~Truthy(d.Information)
    /\ d.TimeSeries.defined /\ DOMAIN d.TimeSeries.recs # {}

\* no entry of the store holds an error payload
CleanStore(store) == \A t \in Symbols : store[t].kind = "entry" => Clean(store[t].data)

\* the step in which the network call of the page settles
SettleStep == pc = "inflight" /\ pc' = "idle"

\* the item of ticker t changes only by the write of a fetch for t that succeeded,
\* which stores the payload with the time of the write, or by a removal
WritesOnlyOnSuccess ==
    \A t \in Symbols :
        localStorage'[t] # localStorage[t] =>
            \/ localStorage'[t] = NoItem
            \/ /\ SettleStep /\ raised' = NoError /\ t = inv.ticker
               /\ localStorage'[t] = Entry(now', response'.body)

Expired(item) ==
    item.kind \in {"entry", "nodata"} /\ now - item.timestamp >= CACHE_DURATION_MS

\* the text of the item is not the text of an object: JSON.parse throws on it
Unparsable(item) == item.kind \in {"empty", "corrupt"}

\* a read returns the payload of an entry younger than the lifetime and nothing else
ReadsFresh ==
    (op = "read" /\ out.hit) =>
        /\ out.found.kind = "entry"
        /\ now - out.found.timestamp < CACHE_DURATION_MS
        /\ out.data = out.found.data
        /\ localStorage[out.ticker] = out.found

\* C19: a read returns the stored payload only if now - storedAt < CACHE_TTL; of an
\* item that is expired or cannot be parsed it reports absence and removes the
\* item; after a read that reports absence no item of the ticker remains
C19_ReadRemoves ==
    /\ ReadsFresh
    /\ (op = "read" /\ (Expired(out.found) \/ Unparsable(out.found))) =>
          ~out.hit /\ localStorage[out.ticker] = NoItem
    /\ (op = "read" /\ ~out.hit) => localStorage[out.ticker] = NoItem

\* a click that is served from the cache: the ticker is valid and has an entry
\* younger than the lifetime
CachedClick ==
    /\ Click
    /\ validateTicker(ui.inputValue)
    /\ ValidEntry(localStorage, ui.inputValue, now)

\* C20: a fetch served from the cache leaves the time of the last network call and
\* the store as they are, and completes without a wait and without a network call
C20_HitFrame ==
    [][CachedClick =>
          /\ lastAPICallTime' = lastAPICallTime
          /\ localStorage' = localStorage
          /\ now' = now /\ timer' = timer /\ pc' = "idle" /\ pending' = pending
          /\ netCalls' = netCalls
          /\ inv'.state = "cached"]_vars

\* a fetch was served from the cache within the rate-limit delay of the last
\* network call, without a wait
C20_Witness ==
    /\ inv.state = "cached" /\ pc = "idle" /\ pending = 0
    /\ lastAPICallTime > 0 /\ now - lastAPICallTime < API_RATE_LIMIT_DELAY
    /\ ValidEntry(localStorage, inv.ticker, now)

(***************************************************************************)
(* The page after an analysis, checked under Spec.                         *)
(***************************************************************************)
\* the step in which an analysis of the page ends: the network call settles, or
\* the click is served from the cache
OutcomeStep == SettleStep \/ CachedClick

\* the fetch of that analysis returned a payload processStockData does not throw on
SucceedsInStep ==
    \/ SettleStep /\ raised' = NoError /\ ~ProcessThrows(response'.body)
    \/ CachedClick /\ ~ProcessThrows(localStorage[ui.inputValue].data)

\* the controls are enabled again when an analysis ends
ControlsEnabledAfter == OutcomeStep => ~ui'.inputDisabled /\ ~ui'.buttonDisabled

\* an analysis that succeeds ends with the results shown and the history written to
ResultsAfterSuccess ==
    SucceedsInStep => display'.view = "results" /\ lastSave' \in SaveOutcomes

\* C21: whatever analyses came before, an analysis whose fetch and processing
\* succeed ends with the results displayed and the history entry handed to
\* saveToFile, not with an error display; after every outcome of an analysis the
\* input and the button are enabled again
C21_SuccessShowsResults == [][ResultsAfterSuccess /\ ControlsEnabledAfter]_vars

(***************************************************************************)
(* The digest of a run of the monitor, checked under Spec.                 *)
(***************************************************************************)
\* where a run of the monitor is
RunStates == {"start", "fetching", "waiting", "sending", "done", "exited"}

\* C22: a run whose environment is set hands the digest to the mail transport
\* once, when the loop is over and every ticker has its result, whatever number
\* of them failed; a run that misses a variable exits with no network call and
\* no email
C22_DigestOnce ==
    pc \in RunStates =>
        /\ emails <= 1
        /\ emails = 1 => env = Required /\ Len(results) = Len(TICKERS)
        /\ (env = Required /\ pc \in {"sending", "done", "exited"}) => emails = 1
        /\ (env = Required /\ pc \in {"start", "fetching", "waiting"}) => emails = 0
        /\ env # Required =>
              /\ emails = 0 /\ netCalls = <<>> /\ results = <<>>
              /\ pc \in {"start", "exited"}
              /\ pc = "exited" => exitCode = 1

\* the digest of a run of two tickers that both failed was sent
C22_Witness ==
    /\ pc = "done" /\ emails = 1 /\ Len(TICKERS) = 2 /\ Len(results) = 2
    /\ \A k \in 1..2 : results[k].error # NoError

====
